---- MODULE Spec2Model ----
(***************************************************************************)
(* Model of bin/map.go: the perfSONAR lookup-cache crawler.                *)
(*                                                                         *)
(* main spawns three log writers, getCaches reads the hints file and       *)
(* spawns one getCache goroutine per line, getCache spawns one             *)
(* processCache goroutine per regular tar entry, processCache resolves     *)
(* every record (getIP) and hands the addresses to dedup, and dedup        *)
(* starts one worker goroutine per address it finds absent from the cache. *)
(* A worker makes three HTTP requests and feeds the addresses of the test  *)
(* list back into dedup.  Every goroutine is a record with its own program *)
(* counter; one action is one atomic step of one goroutine.                *)
(***************************************************************************)
EXTENDS Integers, Sequences, FiniteSets, TLC

\* ------------------------------------------------------------------ bounds
\* Lines of the hints file, tar entries per archive, rows per table,
\* descriptors per test list, results per result list; what the network
\* supplies in one run (table rows, answered summary requests, test
\* descriptors and answers with a status outside 2xx, together); and the
\* capacity of the three channels (the program's 10000000, scaled down so
\* that a full channel is reachable).
MaxHints == 1
MaxEntries == 2
MaxRecords == 1
MaxTests == 1
MaxResults == 1
MaxInputs == 3
ChanCap == 1

\* ------------------------------------------------------------------ inputs
Nil == "<nil>"

\* The one archive location and table name the hints and the archives use.
CacheURLs == {"http://ls/cache.tgz"}
EntryNames == {"list.psv"}

\* record[0] of a table row.
Locators ==
    { "http://10.0.0.1:80/path", "http://ps.example.org:80/", "http://[::1]:80/",
      "http://10.0.0.1/", "/toolkit", ":bad" }

\* The host names of the locators.
Names == {"ps.example.org"}

\* What net.LookupHost may answer for a name: an error, or addresses.
LookupResults ==
    { [err |-> TRUE, addrs |-> <<>>],
      [err |-> FALSE, addrs |-> <<"10.0.0.1">>],
      [err |-> FALSE, addrs |-> <<"10.0.0.1", "::1">>] }

\* The descriptors a host's test list may carry, as destination_ip and
\* source_ip: another host and the host itself, or no address and another host.
TestSet ==
    { [DestinationIP |-> "10.0.0.2", SourceIP |-> "10.0.0.1"],
      [DestinationIP |-> "", SourceIP |-> "10.0.0.2"] }

CatalogStrings == UNION { {t.DestinationIP, t.SourceIP} : t \in TestSet }

\* url.Parse(record[0]): the error and the Host of the parsed URL.
UrlParse(loc) ==
    CASE loc = "http://10.0.0.1:80/path"   -> [err |-> FALSE, Host |-> "10.0.0.1:80"]
      [] loc = "http://ps.example.org:80/" -> [err |-> FALSE, Host |-> "ps.example.org:80"]
      [] loc = "http://[::1]:80/"          -> [err |-> FALSE, Host |-> "[::1]:80"]
      [] loc = "http://10.0.0.1/"          -> [err |-> FALSE, Host |-> "10.0.0.1"]
      [] loc = "/toolkit"                  -> [err |-> FALSE, Host |-> ""]
      [] OTHER                             -> [err |-> TRUE,  Host |-> ""]

\* net.SplitHostPort(url.Host): an error when there is no port.
SplitHostPort(hostport) ==
    CASE hostport = "10.0.0.1:80"       -> [err |-> FALSE, host |-> "10.0.0.1"]
      [] hostport = "ps.example.org:80" -> [err |-> FALSE, host |-> "ps.example.org"]
      [] hostport = "[::1]:80"          -> [err |-> FALSE, host |-> "::1"]
      [] OTHER                          -> [err |-> TRUE,  host |-> ""]

\* net.ParseIP(host) followed by addr.String(): Nil when host is no literal.
ParseIP(host) ==
    CASE host = "10.0.0.1" -> "10.0.0.1"
      [] host = "10.0.0.2" -> "10.0.0.2"
      [] host = "::1"      -> "::1"
      [] OTHER             -> Nil

\* strings.Contains(host, ":")
ContainsColon(host) == host \in {"::1", "[::1]"}

\* dedup's "Convert IPv6".
ConvertIPv6(host) == IF ContainsColon(host) THEN "[" \o host \o "]" ELSE host

\* Every key cache.m can get.
Keys == { ConvertIPv6(h) : h \in CatalogStrings \cup {"10.0.0.1", "::1"} }

\* "cache," + header.Name + "," + cache
CacheOrigin(name, url) == "cache," \o name \o "," \o url

VARIABLES
    mainpc,      \* main: "start", "hints", "scan", "wait", "returned"
    nhints,      \* lines of the hints file scanned so far
    exited,      \* "no"; "ok" once main returned; "fatal" after errorLogger.Fatal
    wg,          \* the WaitGroup counter
    cache,       \* the keys of cache.m
    links, summaries, results,            \* the channels' buffers
    linkFile, summaryFile, resultFile,    \* what each log file holds
    writers,     \* logWriter goroutines: suffix -> "none", "open", "loop"
    caches,      \* getCache goroutines, in spawn order
    tables,      \* processCache goroutines, in spawn order
    workers,     \* worker goroutines: key -> those started on it, in order
    inputs,      \* rows, summaries, descriptors and non-2xx answers so far
    ncalls,      \* key -> dedup calls entered with it
    ndone        \* key -> dedup calls returned for it

vars == << mainpc, nhints, exited, wg, cache, links, summaries, results,
           linkFile, summaryFile, resultFile, writers, caches, tables,
           workers, inputs, ncalls, ndone >>

chans == << links, summaries, results >>
files == << linkFile, summaryFile, resultFile >>
calls == << ncalls, ndone >>

Suffixes == {"link", "summary", "results"}

Init ==
    /\ mainpc = "start"
    /\ nhints = 0
    /\ exited = "no"
    /\ wg = 0
    /\ cache = {}
    /\ links = <<>> /\ summaries = <<>> /\ results = <<>>
    /\ linkFile = <<>> /\ summaryFile = <<>> /\ resultFile = <<>>
    /\ writers = [s \in Suffixes |-> "none"]
    /\ caches = <<>>
    /\ tables = <<>>
    /\ workers = [k \in Keys |-> <<>>]
    /\ inputs = 0
    /\ ncalls = [k \in Keys |-> 0]
    /\ ndone = [k \in Keys |-> 0]

Running == exited = "no"

\* errorLogger.Fatal: log and os.Exit(1); every goroutine ends with the process.
Fatal == exited' = "fatal"

\* ------------------------------------------------------------------- main
\* main, lines 297-299: go logWriter(...) three times.
MainSpawnWriters ==
    /\ Running /\ mainpc = "start"
    /\ writers' = [s \in Suffixes |-> "open"]
    /\ mainpc' = "hints"
    /\ UNCHANGED << nhints, exited, wg, cache, chans, files, caches, tables,
                    workers, inputs, calls >>

\* getCaches, lines 276-279: fetch the hints file.
GetCachesFetch ==
    /\ Running /\ mainpc = "hints"
    /\ \E err \in BOOLEAN :
         IF err THEN Fatal /\ mainpc' = mainpc
                ELSE mainpc' = "scan" /\ exited' = exited
    /\ UNCHANGED << nhints, wg, cache, chans, files, writers, caches, tables,
                    workers, inputs, calls >>

NewCache(url) == [url |-> url, pc |-> "fetch", n |-> 0, err |-> "none"]

\* getCaches, lines 283-287: one more line: wg.Add(1); go getCache(line).
GetCachesScan ==
    /\ Running /\ mainpc = "scan" /\ nhints < MaxHints
    /\ \E url \in CacheURLs :
         /\ wg' = wg + 1
         /\ caches' = Append(caches, NewCache(url))
    /\ nhints' = nhints + 1
    /\ UNCHANGED << mainpc, exited, cache, chans, files, writers, tables,
                    workers, inputs, calls >>

\* getCaches, lines 288-291: the scanner is done, with an error or without.
GetCachesEnd ==
    /\ Running /\ mainpc = "scan"
    /\ \E err \in BOOLEAN :
         IF err THEN Fatal /\ mainpc' = mainpc
                ELSE mainpc' = "wait" /\ exited' = exited
    /\ UNCHANGED << nhints, wg, cache, chans, files, writers, caches, tables,
                    workers, inputs, calls >>

\* main, line 303-304: wg.Wait() returns when the counter is zero, and main
\* returns: the process exits.
MainWait ==
    /\ Running /\ mainpc = "wait"
    /\ wg = 0
    /\ mainpc' = "returned"
    /\ exited' = "ok"
    /\ UNCHANGED << nhints, wg, cache, chans, files, writers, caches, tables,
                    workers, inputs, calls >>

\* ------------------------------------------------------------- logWriter
Chan(s) == IF s = "link" THEN links ELSE IF s = "summary" THEN summaries ELSE results

\* logWriter, lines 158-161: the log file cannot be opened: errorLogger.Fatal.
LogWriterOpenFail(s) ==
    /\ Running /\ writers[s] = "open"
    /\ Fatal
    /\ UNCHANGED << mainpc, nhints, wg, cache, chans, files, writers, caches,
                    tables, workers, inputs, calls >>

\* A write that puts the log at the start of the file.
FileWriteFront(file, log) == << log >> \o file

\* logFile.Write(log): what the file holds after it.
FileWrite(file, log) == Append(file, log)

\* logWriter, lines 164-165 (after 156-162 the first time): receive the next
\* log and write it to the file.
LogWriterWrite(s) ==
    /\ Running /\ writers[s] \in {"open", "loop"}
    /\ Chan(s) # <<>>
    /\ writers' = [writers EXCEPT ![s] = "loop"]
    /\ links' = IF s = "link" THEN Tail(links) ELSE links
    /\ summaries' = IF s = "summary" THEN Tail(summaries) ELSE summaries
    /\ results' = IF s = "results" THEN Tail(results) ELSE results
    /\ linkFile' = IF s = "link" THEN FileWrite(linkFile, Head(links)) ELSE linkFile
    /\ summaryFile' = IF s = "summary"
                        THEN FileWrite(summaryFile, Head(summaries)) ELSE summaryFile
    /\ resultFile' = IF s = "results"
                        THEN FileWrite(resultFile, Head(results)) ELSE resultFile
    /\ UNCHANGED << mainpc, nhints, exited, wg, cache, caches, tables,
                    workers, inputs, calls >>

\* logWriter, lines 164-168: the write of the next log fails: errorLogger.Fatal.
\* The process ends with the log lost; its channel is left as it was.
LogWriterWriteFail(s) ==
    /\ Running /\ writers[s] \in {"open", "loop"}
    /\ Chan(s) # <<>>
    /\ Fatal
    /\ UNCHANGED << mainpc, nhints, wg, cache, chans, files, writers, caches,
                    tables, workers, inputs, calls >>

\* --------------------------------------------------------------- getCache
NewTable(origin, n) ==
    [ origin |-> origin, pc |-> "run", left |-> n, stack |-> <<>>,
      dpc |-> "idle", dhost |-> "", dorigin |-> "",
      lk |-> "none", k |-> 0, nd |-> 0, lit |-> Nil, late |-> FALSE ]

\* A getCache that logs the error and returns, skipping the archive.
GetCacheFailSkips(i, why) ==
    /\ exited' = exited
    /\ caches' = [caches EXCEPT ![i].err = why, ![i].pc = "done"]
    /\ wg' = wg - 1

\* getCache, lines 225-227, 231-233, 236-238: the archive cannot be fetched,
\* read or gunzipped: errorLogger.Fatal.
GetCacheFail(i, why) ==
    /\ Fatal
    /\ caches' = [caches EXCEPT ![i].err = why]
    /\ wg' = wg

\* getCache, lines 224-240: fetch the archive, read it, open the gzip reader.
GetCacheFetch(i) ==
    /\ Running /\ caches[i].pc = "fetch"
    /\ \E out \in {"ok", "get", "read", "gzip"} :
         IF out = "ok"
           THEN /\ caches' = [caches EXCEPT ![i].pc = "next"]
                /\ UNCHANGED << exited, wg >>
           ELSE GetCacheFail(i, out)
    /\ UNCHANGED << mainpc, nhints, cache, chans, files, writers, tables,
                    workers, inputs, calls >>

\* getCache, lines 244-250 and 222: the end of the tar: return; wg.Done().
GetCacheEOF(i) ==
    /\ Running /\ caches[i].pc = "next"
    /\ caches' = [caches EXCEPT ![i].pc = "done"]
    /\ wg' = wg - 1
    /\ UNCHANGED << mainpc, nhints, exited, cache, chans, files, writers,
                    tables, workers, inputs, calls >>

\* getCache, lines 248-250: tarReader.Next() fails: errorLogger.Fatal.
GetCacheTarErr(i) ==
    /\ Running /\ caches[i].pc = "next"
    /\ Fatal
    /\ caches' = [caches EXCEPT ![i].err = "tar"]
    /\ UNCHANGED << mainpc, nhints, wg, cache, chans, files, writers,
                    tables, workers, inputs, calls >>

\* A getCache that starts processCache without wg.Add(1).
GetCacheTableNoAdd(i) ==
    /\ Running /\ caches[i].pc = "next" /\ caches[i].n < MaxEntries
    /\ \E name \in EntryNames, nrec \in 0..MaxRecords :
         /\ inputs + nrec <= MaxInputs
         /\ inputs' = inputs + nrec
         /\ tables' = Append(tables, NewTable(CacheOrigin(name, caches[i].url), nrec))
    /\ caches' = [caches EXCEPT ![i].n = @ + 1]
    /\ UNCHANGED << mainpc, nhints, exited, wg, cache, chans, files, writers,
                    workers, calls >>

\* getCache, lines 253-265: a regular file that parses: wg.Add(1);
\* go processCache(records, origin).
GetCacheTable(i) ==
    /\ Running /\ caches[i].pc = "next" /\ caches[i].n < MaxEntries
    /\ \E name \in EntryNames, nrec \in 0..MaxRecords :
         /\ inputs + nrec <= MaxInputs
         /\ inputs' = inputs + nrec
         /\ tables' = Append(tables, NewTable(CacheOrigin(name, caches[i].url), nrec))
    /\ wg' = wg + 1
    /\ caches' = [caches EXCEPT ![i].n = @ + 1]
    /\ UNCHANGED << mainpc, nhints, exited, cache, chans, files, writers,
                    workers, calls >>

\* getCache, lines 258-262, 266-269: a table that does not parse, a directory
\* or another kind of entry: on to the next entry.
GetCacheSkip(i) ==
    /\ Running /\ caches[i].pc = "next" /\ caches[i].n < MaxEntries
    /\ \E kind \in {"csverr", "dir", "other"} :
         caches' = [caches EXCEPT ![i].n = @ + 1]
    /\ UNCHANGED << mainpc, nhints, exited, wg, cache, chans, files, writers,
                    tables, workers, inputs, calls >>

\* ------------------------------------------------------------------ dedup
\* The goroutines that call dedup: processCache <<"t", i>> and worker
\* <<"w", key, j>>.  Their records share the fields dpc, dhost, dorigin, nd.
Callers ==
    { <<"t", i>> : i \in DOMAIN tables } \cup
    UNION { { <<"w", k, j>> : j \in DOMAIN workers[k] } : k \in Keys }

Frame(id) == IF id[1] = "t" THEN tables[id[2]] ELSE workers[id[2]][id[3]]

\* The goroutine id continues as r; W is what workers is otherwise.
Put(id, r, W) ==
    IF id[1] = "t"
      THEN tables' = [tables EXCEPT ![id[2]] = r] /\ workers' = W
      ELSE tables' = tables /\ workers' = [W EXCEPT ![id[2]][id[3]] = r]

Link(host, origin) == [address |-> host, origin |-> origin]

\* A dedup that sends the link of a new host only.
SendLinkIfNew(host, origin) ==
    IF host \in cache THEN links ELSE Append(links, Link(host, origin))

\* A dedup that sends no link.
SendNoLink(host, origin) == links

\* dedup, line 66: what the links channel holds after links <- {address, origin}.
SendLink(host, origin) == Append(links, Link(host, origin))

\* dedup, lines 60-66: the call: the host is converted and the link is sent,
\* which blocks while the channel is full; the caller r is then at line 67.
CanCall == Len(links) < ChanCap

\* late keeps whether a worker was already started on the host when the call
\* began.
Call(r, host, origin) ==
    [r EXCEPT !.dpc = "check", !.dhost = ConvertIPv6(host), !.dorigin = origin,
              !.nd = @ + 1, !.late = workers[ConvertIPv6(host)] # <<>>]

Called(host, origin) ==
    /\ links' = SendLink(ConvertIPv6(host), origin)
    /\ ncalls' = [ncalls EXCEPT ![ConvertIPv6(host)] = @ + 1]

Return(r) == [r EXCEPT !.dpc = "idle", !.dhost = "", !.dorigin = "", !.late = FALSE]

\* A lookup that never finds the host.
CachedNever(host) == FALSE

\* dedup, lines 67-69: _, ok := cache.m[host] under the read lock.
Cached(host) == host \in cache

\* dedup, lines 67-70: the lookup; the call returns when the host is cached.
DedupCheck(id) ==
    /\ Running /\ Frame(id).dpc = "check"
    /\ IF Cached(Frame(id).dhost)
         THEN /\ Put(id, Return(Frame(id)), workers)
              /\ ndone' = [ndone EXCEPT ![Frame(id).dhost] = @ + 1]
         ELSE /\ Put(id, [Frame(id) EXCEPT !.dpc = "lock"], workers)
              /\ ndone' = ndone
    /\ UNCHANGED << mainpc, nhints, exited, wg, cache, chans, files, writers,
                    caches, inputs, ncalls >>

NewWorker(host) ==
    [ host |-> host, pc |-> "summary", tests |-> <<>>, left |-> 0,
      dpc |-> "idle", dhost |-> "", dorigin |-> "",
      fail |-> 0, reqs |-> 0, nd |-> 0, nsum |-> 0, nres |-> 0, non2xx |-> 0,
      ntests |-> 0, late |-> FALSE ]

\* dedup, lines 71-77: cache.m[host] = true under the write lock, then
\* go worker(host), and return.
DedupInsert(id) ==
    /\ Running /\ Frame(id).dpc = "lock"
    /\ LET host == Frame(id).dhost IN
         /\ cache' = cache \cup {host}
         /\ Put(id, Return(Frame(id)),
                [workers EXCEPT ![host] = Append(@, NewWorker(host))])
         /\ ndone' = [ndone EXCEPT ![host] = @ + 1]
    /\ UNCHANGED << mainpc, nhints, exited, wg, chans, files, writers,
                    caches, inputs, ncalls >>

\* ----------------------------------------------------- processCache, getIP
\* getIP, lines 173-193: the calls of dedup that getIP(host, origin) makes, in
\* order, when net.LookupHost answers as dns says: none for an empty host or a
\* failed lookup, getIP of every address for a name, one for a literal address.
RECURSIVE GetIP(_, _, _), GetIPs(_, _, _)
GetIP(host, origin, dns) ==
    IF host = ""
      THEN <<>>
      ELSE IF ParseIP(host) = Nil
             THEN IF dns[host].err THEN <<>> ELSE GetIPs(dns[host].addrs, origin, dns)
             ELSE << [host |-> ParseIP(host), origin |-> origin] >>

\* A getIP that stops after the first address of a name.
GetIPsFirst(addrs, origin, dns) ==
    IF addrs = <<>> THEN <<>> ELSE GetIP(Head(addrs), origin, dns)

GetIPs(addrs, origin, dns) ==
    IF addrs = <<>>
      THEN <<>>
      ELSE GetIP(Head(addrs), origin, dns) \o GetIPs(Tail(addrs), origin, dns)

\* processCache, lines 201-215: the calls of dedup one record leads to: none
\* when the URL does not parse, has no host, or has no port to split off.
Resolve(loc, origin, dns) ==
    LET u == UrlParse(loc)
        sp == SplitHostPort(u.Host)
    IN  IF u.err \/ u.Host = "" \/ sp.err THEN <<>> ELSE GetIP(sp.host, origin, dns)

\* The host processCache hands to getIP for a record, Nil when it hands none.
Resolved(loc) ==
    LET u == UrlParse(loc)
        sp == SplitHostPort(u.Host)
    IN  IF u.err \/ u.Host = "" \/ sp.err THEN Nil ELSE sp.host

\* The host component of record[0] without its port, "" when it has none.
Hostname(loc) ==
    CASE loc = "http://10.0.0.1:80/path"   -> "10.0.0.1"
      [] loc = "http://ps.example.org:80/" -> "ps.example.org"
      [] loc = "http://[::1]:80/"          -> "::1"
      [] loc = "http://10.0.0.1/"          -> "10.0.0.1"
      [] OTHER                             -> ""

\* processCache, lines 199-216: the next record of the table is parsed and its
\* host resolved; the calls of dedup follow one by one.  lit keeps the literal
\* address the locator of the record names, if it names one.
ProcessRecord(i) ==
    /\ Running /\ tables[i].pc = "run"
    /\ tables[i].left > 0 /\ tables[i].stack = <<>> /\ tables[i].dpc = "idle"
    /\ \E loc \in Locators, dns \in [Names -> LookupResults] :
         LET h == Resolved(loc)
             named == h \in Names
         IN  tables' = [tables EXCEPT
               ![i].left = @ - 1,
               ![i].stack = Resolve(loc, tables[i].origin, dns),
               ![i].lk = IF ~named THEN "none" ELSE IF dns[h].err THEN "err" ELSE "ok",
               ![i].k = IF named /\ ~dns[h].err THEN Len(dns[h].addrs) ELSE 0,
               ![i].nd = 0,
               ![i].lit = ParseIP(Hostname(loc))]
    /\ UNCHANGED << mainpc, nhints, exited, wg, cache, chans, files, writers,
                    caches, workers, inputs, calls >>

\* getIP, line 191: dedup(addr.String(), origin), the next call.
GetIPDedup(i) ==
    /\ Running /\ tables[i].pc = "run"
    /\ tables[i].stack # <<>> /\ tables[i].dpc = "idle"
    /\ CanCall
    /\ LET top == Head(tables[i].stack) IN
         /\ tables' = [tables EXCEPT
                         ![i] = Call([@ EXCEPT !.stack = Tail(@)], top.host, top.origin)]
         /\ Called(top.host, top.origin)
    /\ UNCHANGED << mainpc, nhints, exited, wg, cache, summaries, results, files,
                    writers, caches, workers, inputs, ndone >>

\* A processCache without the deferred wg.Done().
ProcessCacheNoDone(i) ==
    /\ Running /\ tables[i].pc = "run"
    /\ tables[i].left = 0 /\ tables[i].stack = <<>> /\ tables[i].dpc = "idle"
    /\ tables' = [tables EXCEPT ![i].pc = "done",
                             ![i].lk = "none", ![i].k = 0, ![i].nd = 0,
                             ![i].lit = Nil]
    /\ UNCHANGED << mainpc, nhints, exited, wg, cache, chans, files, writers,
                    caches, workers, inputs, calls >>

\* processCache, lines 197 and 217-218: the records are done: wg.Done().
ProcessCacheDone(i) ==
    /\ Running /\ tables[i].pc = "run"
    /\ tables[i].left = 0 /\ tables[i].stack = <<>> /\ tables[i].dpc = "idle"
    /\ tables' = [tables EXCEPT ![i].pc = "done",
                             ![i].lk = "none", ![i].k = 0, ![i].nd = 0,
                             ![i].lit = Nil]
    /\ wg' = wg - 1
    /\ UNCHANGED << mainpc, nhints, exited, cache, chans, files, writers,
                    caches, workers, inputs, calls >>

\* ----------------------------------------------------------------- worker
\* What client.Get and the checks after it come to: "err" the request fails or
\* times out, "ctype" another Content-Type, "body" the body cannot be read or
\* parsed, "ok".  A request to no host at all always fails.
Responses(host) == IF host = "" THEN {"err"} ELSE {"ok", "err", "ctype", "body"}

\* resp.StatusCode of a response that arrived.  client.Get returns no error
\* for a status outside 2xx and worker never reads the status, so it decides
\* nothing; Passed keeps the first step a worker went on from with such a
\* response.
Statuses == {"200", "500"}
Passed(w, step, status) == IF status = "200" \/ w.non2xx # 0 THEN w.non2xx ELSE step

\* What a response with this status takes of the run's inputs.
Cost(status) == IF status = "200" THEN 0 ELSE 1

\* The test lists a host may answer with.
Catalogs == UNION { [1..n -> TestSet] : n \in 0..MaxTests }

\* A worker that logs the failure of a step and goes on with the next one.
WorkerFailGoesOn(w, step) ==
    [w EXCEPT !.pc = IF step = 1 THEN "tests" ELSE IF step = 2 THEN "dst" ELSE "done",
              !.fail = step, !.reqs = step]

\* worker: a step failed: return.
WorkerFail(w, step) == [w EXCEPT !.pc = "done", !.fail = step, !.reqs = step]

\* worker, lines 83-99: the summary request; a summary that was read is sent
\* to the summaries channel, which blocks while the channel is full.
WorkerSummary(k, j) ==
    /\ Running /\ workers[k][j].pc = "summary"
    /\ \E out \in Responses(workers[k][j].host) :
         IF out = "ok"
           THEN /\ Len(summaries) < ChanCap
                /\ summaries' = Append(summaries, [summary |-> workers[k][j].host])
                /\ \E status \in Statuses :
                     /\ inputs + 1 + Cost(status) <= MaxInputs
                     /\ inputs' = inputs + 1 + Cost(status)
                     /\ workers' = [workers EXCEPT
                                      ![k][j].pc = "tests", ![k][j].reqs = 1,
                                      ![k][j].nsum = @ + 1,
                                      ![k][j].non2xx = Passed(workers[k][j], 1, status)]
           ELSE /\ summaries' = summaries
                /\ workers' = [workers EXCEPT ![k][j] = WorkerFail(@, 1)]
                /\ inputs' = inputs
    /\ UNCHANGED << mainpc, nhints, exited, wg, cache, links, results, files,
                    writers, caches, tables, calls >>

\* A worker whose failed test-list request ends the process.
WorkerTestsFatal(k, j) ==
    /\ Running /\ workers[k][j].pc = "tests"
    /\ \E out \in Responses(workers[k][j].host) :
         IF out = "ok"
           THEN \E tests \in Catalogs, status \in Statuses :
                  /\ inputs + Len(tests) + Cost(status) <= MaxInputs
                  /\ inputs' = inputs + Len(tests) + Cost(status)
                  /\ workers' = [workers EXCEPT
                                   ![k][j].pc = "dst", ![k][j].reqs = 2,
                                   ![k][j].tests = tests,
                                   ![k][j].ntests = Len(tests),
                                   ![k][j].non2xx = Passed(workers[k][j], 2, status)]
                  /\ exited' = exited
           ELSE /\ workers' = [workers EXCEPT ![k][j] = WorkerFail(@, 2)]
                /\ inputs' = inputs
                /\ Fatal
    /\ UNCHANGED << mainpc, nhints, wg, cache, chans, files, writers,
                    caches, tables, calls >>

\* worker, lines 102-117: the test-list request.
WorkerTests(k, j) ==
    /\ Running /\ workers[k][j].pc = "tests"
    /\ \E out \in Responses(workers[k][j].host) :
         IF out = "ok"
           THEN \E tests \in Catalogs, status \in Statuses :
                  /\ inputs + Len(tests) + Cost(status) <= MaxInputs
                  /\ inputs' = inputs + Len(tests) + Cost(status)
                  /\ workers' = [workers EXCEPT
                                   ![k][j].pc = "dst", ![k][j].reqs = 2,
                                   ![k][j].tests = tests,
                                   ![k][j].ntests = Len(tests),
                                   ![k][j].non2xx = Passed(workers[k][j], 2, status)]
           ELSE /\ workers' = [workers EXCEPT ![k][j] = WorkerFail(@, 2)]
                /\ inputs' = inputs
    /\ UNCHANGED << mainpc, nhints, exited, wg, cache, chans, files, writers,
                    caches, tables, calls >>

\* worker, line 121: dedup(test.DestinationIP, host).
WorkerQueueDst(k, j) ==
    /\ Running /\ workers[k][j].pc = "dst"
    /\ workers[k][j].tests # <<>> /\ workers[k][j].dpc = "idle"
    /\ CanCall
    /\ LET test == Head(workers[k][j].tests) IN
         /\ workers' = [workers EXCEPT
                          ![k][j] = Call([@ EXCEPT !.pc = "src"],
                                         test.DestinationIP, @.host)]
         /\ Called(test.DestinationIP, workers[k][j].host)
    /\ UNCHANGED << mainpc, nhints, exited, wg, cache, summaries, results, files,
                    writers, caches, tables, inputs, ndone >>

\* A worker that calls dedup for the destination of a test twice.
WorkerQueueDstAgain(k, j) ==
    /\ Running /\ workers[k][j].pc = "src" /\ workers[k][j].dpc = "idle"
    /\ CanCall
    /\ LET test == Head(workers[k][j].tests) IN
         /\ workers' = [workers EXCEPT
                          ![k][j] = Call([@ EXCEPT !.pc = "dst", !.tests = Tail(@)],
                                         test.DestinationIP, @.host)]
         /\ Called(test.DestinationIP, workers[k][j].host)
    /\ UNCHANGED << mainpc, nhints, exited, wg, cache, summaries, results, files,
                    writers, caches, tables, inputs, ndone >>

\* worker, line 122: dedup(test.SourceIP, host), and on to the next test.
WorkerQueueSrc(k, j) ==
    /\ Running /\ workers[k][j].pc = "src" /\ workers[k][j].dpc = "idle"
    /\ CanCall
    /\ LET test == Head(workers[k][j].tests) IN
         /\ workers' = [workers EXCEPT
                          ![k][j] = Call([@ EXCEPT !.pc = "dst", !.tests = Tail(@)],
                                         test.SourceIP, @.host)]
         /\ Called(test.SourceIP, workers[k][j].host)
    /\ UNCHANGED << mainpc, nhints, exited, wg, cache, summaries, results, files,
                    writers, caches, tables, inputs, ndone >>

\* A worker that makes the test-results request while tests are left.
WorkerResultsEarly(k, j) ==
    /\ Running /\ workers[k][j].pc = "dst"
    /\ workers[k][j].dpc = "idle"
    /\ \E out \in Responses(workers[k][j].host) :
         IF out = "ok"
           THEN \E n \in 0..MaxResults, status \in Statuses :
                  /\ inputs + Cost(status) <= MaxInputs
                  /\ inputs' = inputs + Cost(status)
                  /\ workers' = [workers EXCEPT
                                   ![k][j].pc = IF n = 0 THEN "done" ELSE "emit",
                                   ![k][j].reqs = 3, ![k][j].left = n,
                                   ![k][j].non2xx = Passed(workers[k][j], 3, status)]
           ELSE /\ workers' = [workers EXCEPT ![k][j] = WorkerFail(@, 3)]
                /\ inputs' = inputs
    /\ UNCHANGED << mainpc, nhints, exited, wg, cache, chans, files, writers,
                    caches, tables, calls >>

\* worker, lines 126-142: the test-results request, after the last test.
WorkerResults(k, j) ==
    /\ Running /\ workers[k][j].pc = "dst"
    /\ workers[k][j].tests = <<>> /\ workers[k][j].dpc = "idle"
    /\ \E out \in Responses(workers[k][j].host) :
         IF out = "ok"
           THEN \E n \in 0..MaxResults, status \in Statuses :
                  /\ inputs + Cost(status) <= MaxInputs
                  /\ inputs' = inputs + Cost(status)
                  /\ workers' = [workers EXCEPT
                                   ![k][j].pc = IF n = 0 THEN "done" ELSE "emit",
                                   ![k][j].reqs = 3, ![k][j].left = n,
                                   ![k][j].non2xx = Passed(workers[k][j], 3, status)]
           ELSE /\ workers' = [workers EXCEPT ![k][j] = WorkerFail(@, 3)]
                /\ inputs' = inputs
    /\ UNCHANGED << mainpc, nhints, exited, wg, cache, chans, files, writers,
                    caches, tables, calls >>

\* worker, lines 144-147: results <- testResult, for each result.
WorkerEmit(k, j) ==
    /\ Running /\ workers[k][j].pc = "emit"
    /\ Len(results) < ChanCap
    /\ results' = Append(results, [result |-> workers[k][j].host,
                                   n |-> workers[k][j].nres + 1])
    /\ workers' = [workers EXCEPT
                     ![k][j].pc = IF workers[k][j].left = 1 THEN "done" ELSE "emit",
                     ![k][j].left = @ - 1, ![k][j].nres = @ + 1]
    /\ UNCHANGED << mainpc, nhints, exited, wg, cache, links, summaries, files,
                    writers, caches, tables, inputs, calls >>

Next ==
    \/ MainSpawnWriters
    \/ GetCachesFetch
    \/ GetCachesScan
    \/ GetCachesEnd
    \/ MainWait
    \/ \E s \in Suffixes : LogWriterOpenFail(s)
    \/ \E s \in Suffixes : LogWriterWrite(s)
    \/ \E s \in Suffixes : LogWriterWriteFail(s)
    \/ \E i \in DOMAIN caches : GetCacheFetch(i)
    \/ \E i \in DOMAIN caches : GetCacheEOF(i)
    \/ \E i \in DOMAIN caches : GetCacheTarErr(i)
    \/ \E i \in DOMAIN caches : GetCacheTable(i)
    \/ \E i \in DOMAIN caches : GetCacheSkip(i)
    \/ \E id \in Callers : DedupCheck(id)
    \/ \E id \in Callers : DedupInsert(id)
    \/ \E i \in DOMAIN tables : ProcessRecord(i)
    \/ \E i \in DOMAIN tables : GetIPDedup(i)
    \/ \E i \in DOMAIN tables : ProcessCacheDone(i)
    \/ \E k \in Keys : \E j \in DOMAIN workers[k] : WorkerSummary(k, j)
    \/ \E k \in Keys : \E j \in DOMAIN workers[k] : WorkerTests(k, j)
    \/ \E k \in Keys : \E j \in DOMAIN workers[k] : WorkerQueueDst(k, j)
    \/ \E k \in Keys : \E j \in DOMAIN workers[k] : WorkerQueueSrc(k, j)
    \/ \E k \in Keys : \E j \in DOMAIN workers[k] : WorkerResults(k, j)
    \/ \E k \in Keys : \E j \in DOMAIN workers[k] : WorkerEmit(k, j)

Spec == Init /\ [][Next]_vars

\* The Go scheduler runs some goroutine that can take a step.
FairSpec == Spec /\ WF_vars(Next)

\* ------------------------------------------------------------ properties
AllWorkers == UNION { { <<k, j>> : j \in DOMAIN workers[k] } : k \in Keys }
Worker(id) == workers[id[1]][id[2]]

\* The links sent so far: those written to the file, then those in the channel.
Edges == linkFile \o links
EdgesTo(k) == Cardinality({ n \in DOMAIN Edges : Edges[n].address = k })

\* C1: at most one worker is ever started on an address, however many calls
\* of dedup name it and however they interleave.
C1_AtMostOnce == \A k \in Keys : Len(workers[k]) <= 1

\* C2: once main has returned from wg.Wait, every getCache, every
\* processCache and every worker that was started has returned.
C2_BarrierCoversWorkers ==
    exited = "ok" =>
        /\ \A i \in DOMAIN caches : caches[i].pc = "done"
        /\ \A i \in DOMAIN tables : tables[i].pc = "done"
        /\ \A id \in AllWorkers : Worker(id).pc = "done"

\* C3: once main has returned, the three channels are empty: every record
\* that was sent has been written to its log file.
C3_Drained ==
    exited = "ok" => links = <<>> /\ summaries = <<>> /\ results = <<>>

\* C4: every call of dedup sends exactly one link naming its address, cached
\* or not: for every address the links sent are as many as the calls made,
\* and the links sent are at least as many as the addresses in the cache.
C4_EdgeCompleteness ==
    /\ \A k \in Keys : EdgesTo(k) = ncalls[k]
    /\ Len(Edges) >= Cardinality(cache)

C4_Witness ==
    \E k \in Keys : ncalls[k] >= 2 /\ ndone[k] >= 2 /\ EdgesTo(k) = ncalls[k]

\* C5: no worker is started on an address no call of dedup named, and once a
\* call naming an address has returned exactly one worker was started on it.
C5_StartedIffDispatched ==
    \A k \in Keys :
        /\ ncalls[k] = 0 => Len(workers[k]) = 0
        /\ ndone[k] >= 1 => Len(workers[k]) = 1

\* C6: a worker whose summary step failed has returned: it made the summary
\* request only, called dedup for no address, and sent no summary and no
\* result.
C6_ShortCircuit ==
    \A id \in AllWorkers :
        Worker(id).fail = 1 =>
            /\ Worker(id).pc = "done"
            /\ Worker(id).reqs = 1
            /\ Worker(id).nd = 0
            /\ Worker(id).nsum = 0 /\ Worker(id).nres = 0

C6_Witness ==
    \E a, b \in AllWorkers :
        /\ Worker(a).fail = 1 /\ Worker(a).pc = "done"
        /\ Worker(b).reqs >= 2

\* C7: the step in which a request of a worker fails changes that worker
\* only: the process keeps running, and the cache, the channels, the log
\* files, the WaitGroup, the other workers and all other goroutines are as
\* they were.
C7_FailureIsLocal ==
    [][ \A id \in AllWorkers :
          (Worker(id).fail = 0 /\ workers'[id[1]][id[2]].fail # 0) =>
             /\ exited' = exited
             /\ UNCHANGED << mainpc, wg, cache, chans, files, writers, caches, tables >>
             /\ \A k \in Keys : DOMAIN workers'[k] = DOMAIN workers[k]
             /\ \A other \in AllWorkers \ {id} :
                  workers'[other[1]][other[2]] = Worker(other) ]_vars

C7_Witness ==
    \E a, b \in AllWorkers :
        /\ a # b
        /\ Worker(a).fail \in {2, 3}
        /\ Worker(b).fail = 0 /\ Worker(b).reqs >= 1
        /\ exited = "no"

\* C8 as stated: an archive that cannot be fetched or decompressed is skipped
\* and the run goes on.
C8_ArchiveSkipped ==
    \A i \in DOMAIN caches : caches[i].err # "none" => exited # "fatal"

\* C8 as amended: an archive that cannot be fetched or decompressed ends the
\* whole run: the process has exited with the failure status.
C8_ArchiveFatal ==
    \A i \in DOMAIN caches : caches[i].err # "none" => exited = "fatal"

C8_Witness ==
    \E i \in DOMAIN caches :
        /\ caches[i].err # "none"
        /\ \E t \in DOMAIN tables : tables[t].pc = "run"

\* C9: a record whose host name is looked up to k addresses leads to k calls
\* of dedup, each with the origin of the table; a failed lookup leads to no
\* call, and the step of the failed lookup does not end the process.
C9_FanOutState ==
    \A i \in DOMAIN tables :
        LET t == tables[i] IN
        /\ t.lk = "ok" =>
             /\ t.nd + Len(t.stack) = t.k
             /\ \A n \in DOMAIN t.stack : t.stack[n].origin = t.origin
             /\ t.dpc # "idle" => t.dorigin = t.origin
        /\ t.lk = "err" => t.nd = 0 /\ t.stack = <<>> /\ t.dpc = "idle"

C9_FanOut ==
    /\ []C9_FanOutState
    /\ [][ \A i \in DOMAIN tables :
             (tables[i].lk # "err" /\ tables'[i].lk = "err") => exited' = exited ]_vars

C9_Witness ==
    \E i \in DOMAIN tables :
        /\ tables[i].lk = "ok" /\ tables[i].k = 2 /\ tables[i].nd = 2
        /\ tables[i].stack = <<>> /\ tables[i].dpc = "idle"
        /\ EdgesTo("10.0.0.1") >= 1 /\ EdgesTo("[::1]") >= 1

AtLinkSend ==
    { id \in Callers :
        /\ Frame(id).dpc = "idle"
        /\ IF id[1] = "t"
             THEN Frame(id).pc = "run" /\ Frame(id).stack # <<>>
             ELSE \/ Frame(id).pc = "dst" /\ Frame(id).tests # <<>>
                  \/ Frame(id).pc = "src" }
AtResultSend == { id \in AllWorkers : Worker(id).pc = "emit" }

\* C11: a send to an output channel never blocks: whenever a goroutine of
\* the running process is at the send of a link or of a result, the channel
\* has room for it, however many records are queued and whatever its
\* logWriter does.
C11_NeverBlocks ==
    Running =>
        /\ AtLinkSend # {} => Len(links) < ChanCap
        /\ AtResultSend # {} => Len(results) < ChanCap

\* C12: a worker that got an answer with a status outside 2xx to one of its
\* three requests has returned at that step and sent no record for it: no
\* summary after such an answer to the summary request, no call of dedup
\* after one to the test-list request, no result after one to the results
\* request, whatever the Content-Type of the answer.
C12_Non2xxFails ==
    \A id \in AllWorkers :
        LET w == Worker(id) IN
        w.non2xx # 0 =>
            /\ w.pc = "done" /\ w.reqs = w.non2xx
            /\ w.non2xx = 1 => w.nsum = 0
            /\ w.non2xx = 2 => w.nd = 0
            /\ w.non2xx = 3 => w.nres = 0

\* The keys getIP can hand to dedup: the normalized form of a literal address.
ResolvedKeys ==
    { ConvertIPv6(ParseIP(h)) :
        h \in { x \in CatalogStrings \cup {"10.0.0.1", "::1"} : ParseIP(x) # Nil } }

\* C13: every key of the cache, and every address a worker was started on,
\* is a normalized literal address as getIP produces it; the destination_ip
\* and source_ip strings of a test list never get there as they are when
\* they are empty, a name or another form of an address.
C13_OnlyResolved ==
    /\ cache \subseteq ResolvedKeys
    /\ \A id \in AllWorkers : Worker(id).host \in ResolvedKeys

\* C14: a record whose locator names a literal address as its host, with a
\* port or without one, leads to exactly one call of dedup, with that
\* address and the origin of the table.
C14_LiteralDispatched ==
    \A i \in DOMAIN tables :
        LET t == tables[i] IN
        t.lit # Nil =>
            /\ t.nd + Len(t.stack) = 1
            /\ \A n \in DOMAIN t.stack :
                 t.stack[n] = [host |-> t.lit, origin |-> t.origin]
            /\ t.dpc # "idle" => t.dhost = ConvertIPv6(t.lit) /\ t.dorigin = t.origin

\* C15: a worker whose test list was read with n tests calls dedup 2n times,
\* test by test, for the destination and then for the source of each, always
\* with its own host as the origin; a worker whose test-list step failed
\* calls dedup for nothing.
C15_FeedbackState ==
    \A id \in AllWorkers :
        LET w == Worker(id) IN
        /\ w.fail \in {1, 2} => w.nd = 0
        /\ w.dpc # "idle" => w.dorigin = w.host
        /\ (w.reqs >= 2 /\ w.fail # 2) =>
             /\ w.nd = 2 * (w.ntests - Len(w.tests)) + (IF w.pc = "src" THEN 1 ELSE 0)
             /\ w.pc \in {"emit", "done"} => w.tests = <<>> /\ w.nd = 2 * w.ntests

Summaries == summaryFile \o summaries
SummariesOf(k) == Cardinality({ n \in DOMAIN Summaries : Summaries[n].summary = k })

\* C16: a worker makes the test-list request only after it has sent its
\* summary, and the test-results request only after the test list was read
\* and every call of dedup for it has returned; after a failed test-list
\* step the worker has returned without the third request and without a
\* result, and the summary it sent is still among the summaries sent.
C16_StepOrder ==
    /\ \A id \in AllWorkers :
         LET w == Worker(id) IN
         /\ w.reqs >= 2 => w.nsum = 1
         /\ w.reqs = 3 => /\ w.fail # 2 /\ w.tests = <<>>
                          /\ w.nd = 2 * w.ntests /\ w.dpc = "idle"
         /\ w.reqs < 3 => w.nres = 0
         /\ w.fail = 2 => w.pc = "done" /\ w.reqs = 2 /\ w.nres = 0 /\ w.nsum = 1
    /\ \A k \in Keys :
         SummariesOf(k) = Cardinality({ j \in DOMAIN workers[k] : workers[k][j].nsum = 1 })

C16_Witness ==
    \E a \in AllWorkers :
        /\ Worker(a).fail = 2 /\ Worker(a).pc = "done"
        /\ \E n \in DOMAIN summaryFile : summaryFile[n].summary = Worker(a).host

\* C17: dedup sends the link before it reads the cache: a call that is at
\* the lookup or at the insert, a key of the cache and a started worker all
\* have a link naming their address among the links sent; and every link
\* whose origin is an address a worker was started on comes after a link
\* whose address is that origin.
C17_EdgeFirst ==
    /\ \A id \in Callers : Frame(id).dpc # "idle" => EdgesTo(Frame(id).dhost) >= 1
    /\ \A k \in Keys : (k \in cache \/ workers[k] # <<>>) => EdgesTo(k) >= 1
    /\ \A n \in DOMAIN Edges :
         \A k \in Keys :
            (Edges[n].origin = k /\ workers[k] # <<>>) =>
                \E m \in 1..(n - 1) : Edges[m].address = k

C17_Witness ==
    \E n \in DOMAIN linkFile :
        /\ linkFile[n].origin \in Keys
        /\ workers[linkFile[n].origin] # <<>>
        /\ \E m \in 1..(n - 1) : linkFile[m].address = linkFile[n].origin

\* The log file of a logWriter, and the records sent on its channel so far:
\* those written to the file, then those still in the channel.
File(s) == IF s = "link" THEN linkFile ELSE IF s = "summary" THEN summaryFile ELSE resultFile
Sent(s) == File(s) \o Chan(s)

\* C18: each log file holds records of its own channel only, and is a prefix
\* of what was sent on that channel, in the order sent: what was sent only
\* grows at its end, one record a step, and a file changes only when its
\* logWriter takes the head of its channel and appends it to the file.
C18_OwnRecords ==
    /\ \A n \in DOMAIN Sent("link") : DOMAIN Sent("link")[n] = {"address", "origin"}
    /\ \A n \in DOMAIN Sent("summary") : DOMAIN Sent("summary")[n] = {"summary"}
    /\ \A n \in DOMAIN Sent("results") : DOMAIN Sent("results")[n] = {"result", "n"}

RunningCaches == { i \in DOMAIN caches : caches[i].pc # "done" }
RunningTables == { i \in DOMAIN tables : tables[i].pc # "done" }

\* C19: the WaitGroup counter is never negative and is the number of
\* getCache and processCache goroutines that have not returned, so it is
\* not zero while one of them runs, and main gets past wg.Wait only when every
\* one of them has returned.
C19_BarrierCoversTasks ==
    /\ wg >= 0
    /\ wg = Cardinality(RunningCaches) + Cardinality(RunningTables)
    /\ (RunningCaches # {} \/ RunningTables # {}) => wg > 0
    /\ mainpc = "returned" => RunningCaches = {} /\ RunningTables = {}

C19_Witness ==
    /\ mainpc = "returned" /\ Len(caches) >= 1 /\ Len(tables) = 2
    /\ ncalls["10.0.0.1"] >= 1

\* C20: every address a worker was started on is a key of the cache, and no
\* key is ever removed; so a call of dedup that began when a worker was
\* already started on its host (a worker's call for its own address among
\* them) never gets to the insert: its step leaves the cache and the workers
\* of that host as they are.
C20_InsertedState ==
    /\ \A k \in Keys : workers[k] # <<>> => k \in cache
    /\ \A id \in Callers :
         Frame(id).late => Frame(id).dpc = "check" /\ Frame(id).dhost \in cache

C20_InsertPrecedesStart ==
    /\ []C20_InsertedState
    /\ [][ /\ cache \subseteq cache'
           /\ \A id \in Callers :
                LET next == IF id[1] = "t" THEN tables'[id[2]]
                                           ELSE workers'[id[2]][id[3]]
                IN  (Frame(id).late /\ next # Frame(id)) =>
                       /\ next.dpc = "idle" /\ cache' = cache
                       /\ Len(workers'[Frame(id).dhost]) = Len(workers[Frame(id).dhost]) ]_vars

C20_Witness ==
    \E k \in Keys :
        /\ Len(workers[k]) = 1
        /\ workers[k][1].nd = 2 /\ workers[k][1].dpc = "idle"
        /\ \E n \in DOMAIN Edges : Edges[n] = Link(k, k)
====
